---- MODULE Spec2Model ----
(***************************************************************************)
(* Model of UploadService (upload.service.ts, the version with             *)
(* UploadOptions): validation, folder / prefix derivation, the three-way   *)
(* resize-and-upload fan-out of processAndUploadImage, the batch fan-out   *)
(* of processMultipleImages, uploadToCloudinary and deleteImage.           *)
(*                                                                         *)
(* JavaScript values are represented as follows.                           *)
(*  - an object with optional keys is a function whose DOMAIN is the set   *)
(*    of keys that are present (an absent key reads as undefined);         *)
(*  - text is a TLA+ string, template literals are \o concatenations;      *)
(*  - a comma separated configuration string is kept as the sequence of    *)
(*    its segments, which is what .split(',') produces;                    *)
(*  - a promise is a record with a status "pending", "fulfilled" or        *)
(*    "rejected".                                                          *)
(* Promise reactions are microtasks: they run before the next I/O callback *)
(* is dispatched, so the settling of a pipeline and of the batch is part   *)
(* of the step of the branch that causes it.                               *)
(***************************************************************************)
EXTENDS Integers, Sequences, FiniteSets, Bags, TLC

VARIABLES
    req,        \* the request handed to the service
    config,     \* the ConfigService environment
    ret,        \* value returned by a directly invoked private helper
    pl,         \* pl[i]: promise of processAndUploadImage for file i
    br,         \* br[i][s]: the resizeAndUpload branch of file i, size s
    integrity,  \* integrity[i]: the detached sharp(...).metadata() check
    outcome,    \* promise returned to the caller of the service
    order,      \* indices of the pipelines in the order they fulfilled
    clock,      \* the value Date.now() returns
    store,      \* objects held by the remote store
    issued,     \* bag of the (folder, public_id) pairs passed to upload_stream
    del         \* del[k]: the k-th call of deleteImage

vars == <<req, config, ret, pl, br, integrity, outcome, order, clock, store, issued, del>>

-----------------------------------------------------------------------------
(* Bounds of the model                                                     *)

MaxBatch == 2       \* longest batch whose pipelines are interleaved freely
MaxClock == 1       \* Date.now() ranges over 0..MaxClock

-----------------------------------------------------------------------------
(* Program constants                                                       *)

DefaultMaxFileSize == 5242880
MaxFiles == 10
BytesPerMB == 1048576

Nil == [nil |-> TRUE]
IsNil(v) == "nil" \in DOMAIN v

\* JavaScript truthiness of an optional string property
Truthy(o, k) == k \in DOMAIN o /\ o[k] /= ""

SizeNames == <<"thumbnail", "medium", "large">>
SizeSet == {SizeNames[k] : k \in 1..Len(SizeNames)}

sizes ==
    [s \in SizeSet |->
        CASE s = "thumbnail" -> [width |-> 150, height |-> 150]
          [] s = "medium" -> [width |-> 500, height |-> 500]
          [] s = "large" -> [width |-> 1200, height |-> 1200]]

-----------------------------------------------------------------------------
(* PathNamer: determineFolder, buildFilenamePrefix, extractMetadata        *)

\* determineFolder testing whether the folder option is defined
determineFolderDefined(options) ==
    IF "folder" \in DOMAIN options THEN options.folder
    ELSE IF Truthy(options, "userId") /\ Truthy(options, "category")
         THEN "uploads/" \o options.category \o "/" \o options.userId
    ELSE IF Truthy(options, "userId")
         THEN "uploads/users/" \o options.userId
    ELSE IF Truthy(options, "category")
         THEN "uploads/" \o options.category
    ELSE "uploads"

\* determineFolder with the userId test placed before the test for both
determineFolderUserFirst(options) ==
    IF Truthy(options, "folder") THEN options.folder
    ELSE IF Truthy(options, "userId")
         THEN "uploads/users/" \o options.userId
    ELSE IF Truthy(options, "userId") /\ Truthy(options, "category")
         THEN "uploads/" \o options.category \o "/" \o options.userId
    ELSE IF Truthy(options, "category")
         THEN "uploads/" \o options.category
    ELSE "uploads"

determineFolder(options) ==
    IF Truthy(options, "folder") THEN options.folder
    ELSE IF Truthy(options, "userId") /\ Truthy(options, "category")
         THEN "uploads/" \o options.category \o "/" \o options.userId
    ELSE IF Truthy(options, "userId")
         THEN "uploads/users/" \o options.userId
    ELSE IF Truthy(options, "category")
         THEN "uploads/" \o options.category
    ELSE "uploads"

RECURSIVE Join(_, _)
Join(parts, sep) ==
    IF Len(parts) = 0 THEN ""
    ELSE IF Len(parts) = 1 THEN parts[1]
    ELSE parts[1] \o sep \o Join(Tail(parts), sep)

\* buildFilenamePrefix pushing the category before the userId
buildFilenamePrefixCategoryFirst(options) ==
    LET p1 == IF Truthy(options, "category") THEN <<options.category>> ELSE <<>>
        parts == IF Truthy(options, "userId")
                 THEN Append(p1, options.userId) ELSE p1
    IN IF Len(parts) > 0 THEN Join(parts, "_") ELSE "image"

buildFilenamePrefix(options) ==
    LET p1 == IF Truthy(options, "userId") THEN <<options.userId>> ELSE <<>>
        parts == IF Truthy(options, "category")
                 THEN Append(p1, options.category) ELSE p1
    IN IF Len(parts) > 0 THEN Join(parts, "_") ELSE "image"

\* extractMetadata copying the folder option instead of resolving the folder
extractMetadataFolderOption(options) ==
    [k \in DOMAIN options \cap {"userId", "category", "description", "folder"} |->
        options[k]]

extractMetadata(options) ==
    [k \in (DOMAIN options \cap {"userId", "category", "description"}) \cup {"folder"} |->
        IF k = "folder" THEN determineFolder(options) ELSE options[k]]

-----------------------------------------------------------------------------
(* Validator: validateFile                                                 *)

\* ConfigService.get(key, defaultValue)
ConfigGet(cfg, key, defaultValue) ==
    IF key \in DOMAIN cfg THEN cfg[key] ELSE defaultValue

\* (num / den).toFixed(0): the nearest integer, the larger one on a tie
ToFixed0(num, den) == (2 * num + den) \div (2 * den)

DefaultAllowedMimeTypes == <<"image/jpeg", "image/png", "image/jpg">>

Includes(seq, x) == \E k \in 1..Len(seq) : seq[k] = x

\* validateFile rejecting a file whose size equals the maximum
validateFileAtLeast(file, cfg) ==
    LET maxSize == ConfigGet(cfg, "MAX_FILE_SIZE", DefaultMaxFileSize)
        allowedMimeTypes ==
            ConfigGet(cfg, "ALLOWED_MIME_TYPES", DefaultAllowedMimeTypes)
    IN IF IsNil(file)
       THEN [threw |-> TRUE, message |-> "No file uploaded"]
       ELSE IF file.size >= maxSize
       THEN [threw |-> TRUE,
             message |-> "File too large. Maximum size is "
                          \o ToString(ToFixed0(maxSize, BytesPerMB)) \o "MB"]
       ELSE IF ~Includes(allowedMimeTypes, file.mimetype)
       THEN [threw |-> TRUE,
             message |-> "Invalid file type. Allowed types: "
                          \o Join(allowedMimeTypes, ", ")]
       ELSE [threw |-> FALSE, message |-> ""]

\* validateFile testing the type before the size
validateFileTypeFirst(file, cfg) ==
    LET maxSize == ConfigGet(cfg, "MAX_FILE_SIZE", DefaultMaxFileSize)
        allowedMimeTypes ==
            ConfigGet(cfg, "ALLOWED_MIME_TYPES", DefaultAllowedMimeTypes)
    IN IF IsNil(file)
       THEN [threw |-> TRUE, message |-> "No file uploaded"]
       ELSE IF ~Includes(allowedMimeTypes, file.mimetype)
       THEN [threw |-> TRUE,
             message |-> "Invalid file type. Allowed types: "
                          \o Join(allowedMimeTypes, ", ")]
       ELSE IF file.size > maxSize
       THEN [threw |-> TRUE,
             message |-> "File too large. Maximum size is "
                          \o ToString(ToFixed0(maxSize, BytesPerMB)) \o "MB"]
       ELSE [threw |-> FALSE, message |-> ""]

\* validateFile without the size check
validateFileNoSize(file, cfg) ==
    LET allowedMimeTypes ==
            ConfigGet(cfg, "ALLOWED_MIME_TYPES", DefaultAllowedMimeTypes)
    IN IF IsNil(file)
       THEN [threw |-> TRUE, message |-> "No file uploaded"]
       ELSE IF ~Includes(allowedMimeTypes, file.mimetype)
       THEN [threw |-> TRUE,
             message |-> "Invalid file type. Allowed types: "
                          \o Join(allowedMimeTypes, ", ")]
       ELSE [threw |-> FALSE, message |-> ""]

\* The synchronous part of validateFile: what it throws, if anything.  When
\* it does not throw it leaves the sharp(file.buffer).metadata() promise
\* behind, which nobody awaits (see integrity).
validateFile(file, cfg) ==
    LET maxSize == ConfigGet(cfg, "MAX_FILE_SIZE", DefaultMaxFileSize)
        allowedMimeTypes ==
            ConfigGet(cfg, "ALLOWED_MIME_TYPES", DefaultAllowedMimeTypes)
    IN IF IsNil(file)
       THEN [threw |-> TRUE, message |-> "No file uploaded"]
       ELSE IF file.size > maxSize
       THEN [threw |-> TRUE,
             message |-> "File too large. Maximum size is "
                          \o ToString(ToFixed0(maxSize, BytesPerMB)) \o "MB"]
       ELSE IF ~Includes(allowedMimeTypes, file.mimetype)
       THEN [threw |-> TRUE,
             message |-> "Invalid file type. Allowed types: "
                          \o Join(allowedMimeTypes, ", ")]
       ELSE [threw |-> FALSE, message |-> ""]

-----------------------------------------------------------------------------
(* Promises                                                                *)

Pending == [status |-> "pending", value |-> Nil, message |-> ""]
Fulfilled(v) == [status |-> "fulfilled", value |-> v, message |-> ""]
Rejected(m) == [status |-> "rejected", value |-> Nil, message |-> m]

\* Promise.allSettled in the place of Promise.all: waits for every input and
\* never rejects
PromiseAllSettledStatus(ps) ==
    IF \A k \in 1..Len(ps) : ps[k].status /= "pending" THEN "fulfilled"
    ELSE "pending"

\* Promise.all over the promises ps[1..n]: rejected as soon as one input is
\* rejected, fulfilled once every input is fulfilled.
PromiseAllStatus(ps) ==
    IF \E k \in 1..Len(ps) : ps[k].status = "rejected" THEN "rejected"
    ELSE IF \A k \in 1..Len(ps) : ps[k].status = "fulfilled" THEN "fulfilled"
    ELSE "pending"

\* The values of Promise.all are in the order of the input promises.
PromiseAllValues(ps) == [k \in 1..Len(ps) |-> ps[k].value]

\* The reason of Promise.all is that of the input that rejected first.  A
\* Promise.all that is still pending has seen no rejection, so when it turns
\* rejected the rejected inputs are those of the current step; of several
\* inputs already rejected when Promise.all is called the first one reacts
\* first.
PromiseAllReason(ps) ==
    LET k == CHOOSE j \in 1..Len(ps) :
                /\ ps[j].status = "rejected"
                /\ \A h \in 1..(j - 1) : ps[h].status /= "rejected"
    IN ps[k].message

\* a promise that can be settled again
AdoptLatest(p, status, value, message) ==
    IF status = "rejected" THEN Rejected(message)
    ELSE IF status = "fulfilled" THEN Fulfilled(value)
    ELSE p

\* A promise that is settled keeps its state: all(ps) as seen from a promise
\* whose state so far is p.
Adopt(p, status, value, message) ==
    IF p.status /= "pending" THEN p
    ELSE IF status = "rejected" THEN Rejected(message)
    ELSE IF status = "fulfilled" THEN Fulfilled(value)
    ELSE p

-----------------------------------------------------------------------------
(* VariantPipeline: processAndUploadImage and resizeAndUpload              *)

IdleBranch ==
    [st |-> "idle", filename |-> "", width |-> 0, height |-> 0,
     variant |-> Nil, transforms |-> 0, uploads |-> 0]

\* The promise returned by resizeAndUpload.  The reason of a rejection is
\* read by Promise.all in the step in which the branch rejects and by nobody
\* afterwards (a later rejection of a sibling is ignored), so it is handed
\* over as the reason of the current step instead of being stored.
BranchPromise(b, reason) ==
    IF b.st = "done" THEN Fulfilled(b.variant)
    ELSE IF b.st = "failed" THEN Rejected(reason)
    ELSE Pending

BranchPromises(bs, reason) ==
    [k \in 1..Len(SizeNames) |-> BranchPromise(bs[SizeNames[k]], reason)]

\* a resize with fit 'inside', which keeps the proportions of the source
\* (here twice as wide as high) instead of filling the box
ResizeInside(buffer, dimensions) ==
    [width |-> dimensions.width, height |-> dimensions.height \div 2,
     format |-> "webp"]

\* sharp(buffer).resize(w, h, {fit: 'cover', position: 'center'})
\*   .webp({quality: 85}).toBuffer(): a cover fit fills the target box.
Resize(buffer, dimensions) ==
    [width |-> dimensions.width, height |-> dimensions.height, format |-> "webp"]

\* sharp(processedImage).metadata(): width and height are optional fields
Metadata(image, hasDimensions) ==
    IF hasDimensions
    THEN [format |-> image.format, width |-> image.width, height |-> image.height]
    ELSE [format |-> image.format]

\* a ?? b on an optional property
Coalesce(o, k, d) == IF k \in DOMAIN o THEN o[k] ELSE d

SecureUrl(folder, filename) ==
    "https://res.cloudinary.com/" \o folder \o "/" \o filename \o ".webp"

\* processAndUploadImage sending its uploads to the default folder
StartPipelineDefaultFolder(file, options, cfg) ==
    LET v == validateFile(file, cfg) IN
    IF v.threw
    THEN [promise |-> Rejected("Image processing failed: " \o v.message),
          folder |-> "", filenamePrefix |-> "",
          branches |-> [s \in SizeSet |-> IdleBranch],
          integrity |-> "none"]
    ELSE [promise |-> Pending,
          folder |-> "uploads",
          filenamePrefix |-> buildFilenamePrefix(options),
          branches |-> [s \in SizeSet |->
                          [IdleBranch EXCEPT !.st = "transforming", !.transforms = 1]],
          integrity |-> "pending"]

\* processAndUploadImage awaiting each resizeAndUpload before it calls the
\* next: only the first branch is started by the call
StartPipelineSequential(file, options, cfg) ==
    LET v == validateFile(file, cfg) IN
    IF v.threw
    THEN [promise |-> Rejected("Image processing failed: " \o v.message),
          folder |-> "", filenamePrefix |-> "",
          branches |-> [s \in SizeSet |-> IdleBranch],
          integrity |-> "none"]
    ELSE [promise |-> Pending,
          folder |-> determineFolder(options),
          filenamePrefix |-> buildFilenamePrefix(options),
          branches |-> [s \in SizeSet |->
                          IF s = SizeNames[1]
                          THEN [IdleBranch EXCEPT !.st = "transforming", !.transforms = 1]
                          ELSE IdleBranch],
          integrity |-> "pending"]

\* The synchronous prefix of processAndUploadImage: validateFile, the folder
\* and the prefix, and the three resizeAndUpload calls, each of which starts
\* its transform before the first await suspends the function.
StartPipeline(file, options, cfg) ==
    LET v == validateFile(file, cfg) IN
    IF v.threw
    THEN [promise |-> Rejected("Image processing failed: " \o v.message),
          folder |-> "", filenamePrefix |-> "",
          branches |-> [s \in SizeSet |-> IdleBranch],
          integrity |-> "none"]
    ELSE [promise |-> Pending,
          folder |-> determineFolder(options),
          filenamePrefix |-> buildFilenamePrefix(options),
          branches |-> [s \in SizeSet |->
                          [IdleBranch EXCEPT !.st = "transforming", !.transforms = 1]],
          integrity |-> "pending"]

\* The object returned by processAndUploadImage after the await
UploadResponse(file, options, values, now) ==
    [success |-> TRUE,
     message |-> "Image uploaded successfully",
     original |-> [filename |-> file.originalname,
                   mimetype |-> file.mimetype,
                   size |-> file.size],
     images |-> [thumbnail |-> values[1], medium |-> values[2], large |-> values[3]],
     metadata |-> extractMetadata(options),
     uploadedAt |-> now]

\* State of the promise of processAndUploadImage once its branches are bs
PipelinePromise(p, bs, reason, file, options, now) ==
    LET ps == BranchPromises(bs, reason)
        status == PromiseAllStatus(ps)
    IN Adopt(p, status,
             IF status = "fulfilled"
             THEN UploadResponse(file, options, PromiseAllValues(ps), now)
             ELSE Nil,
             IF status = "rejected"
             THEN "Image processing failed: " \o PromiseAllReason(ps)
             ELSE "")

-----------------------------------------------------------------------------
(* BatchCoordinator: processMultipleImages                                 *)

\* processMultipleImages without the limit on the number of files
BatchGuardNoLimit(r) ==
    IF "files" \notin DOMAIN r \/ Len(r.files) = 0 THEN "No files uploaded"
    ELSE ""

\* the guards with the limit off by one
BatchGuardAtLeast(r) ==
    IF "files" \notin DOMAIN r \/ Len(r.files) = 0 THEN "No files uploaded"
    ELSE IF Len(r.files) >= MaxFiles THEN "Maximum 10 files allowed"
    ELSE ""

\* the two guards of processMultipleImages; "" when neither throws
BatchGuard(r) ==
    IF "files" \notin DOMAIN r \/ Len(r.files) = 0 THEN "No files uploaded"
    ELSE IF Len(r.files) > MaxFiles THEN "Maximum 10 files allowed"
    ELSE ""

PipelinePromises(pls) == [k \in 1..Len(pls) |-> pls[k].promise]

\* the batch collecting its results in the order the pipelines finish
CallPromiseByCompletion(o, kind, pls) ==
    LET ps == PipelinePromises(pls) IN
    IF kind = "single"
    THEN Adopt(o, ps[1].status, ps[1].value, ps[1].message)
    ELSE LET status == PromiseAllStatus(ps)
         IN Adopt(o, status,
                  IF status = "fulfilled"
                  THEN [k \in 1..Len(ps) |-> ps[order'[k]].value] ELSE Nil,
                  IF status = "rejected" THEN PromiseAllReason(ps) ELSE "")

\* the batch settling only once every pipeline has settled
CallPromiseWaits(o, kind, pls) ==
    LET ps == PipelinePromises(pls) IN
    IF kind = "single"
    THEN Adopt(o, ps[1].status, ps[1].value, ps[1].message)
    ELSE LET status == IF \E k \in 1..Len(ps) : ps[k].status = "pending"
                       THEN "pending" ELSE PromiseAllStatus(ps)
         IN Adopt(o, status,
                  IF status = "fulfilled" THEN PromiseAllValues(ps) ELSE Nil,
                  IF status = "rejected" THEN PromiseAllReason(ps) ELSE "")

\* the batch waiting for every pipeline and returning the results of those
\* that succeeded
CallPromiseSettled(o, kind, pls) ==
    LET ps == PipelinePromises(pls) IN
    IF kind = "single"
    THEN Adopt(o, ps[1].status, ps[1].value, ps[1].message)
    ELSE LET status == PromiseAllSettledStatus(ps)
             ok == SelectSeq(ps, LAMBDA q : q.status = "fulfilled")
         IN Adopt(o, status,
                  IF status = "fulfilled" THEN PromiseAllValues(ok) ELSE Nil,
                  "")

\* State of the promise returned to the caller once the pipelines are pls.
\* processAndUploadImage returns its own promise; processMultipleImages
\* returns Promise.all of the promises of the pipelines.
CallPromise(o, kind, pls) ==
    LET ps == PipelinePromises(pls) IN
    IF kind = "single"
    THEN Adopt(o, ps[1].status, ps[1].value, ps[1].message)
    ELSE LET status == PromiseAllStatus(ps)
         IN Adopt(o, status,
                  IF status = "fulfilled" THEN PromiseAllValues(ps) ELSE Nil,
                  IF status = "rejected" THEN PromiseAllReason(ps) ELSE "")

-----------------------------------------------------------------------------
(* Requests and environments                                               *)

EmptyObject == [k \in {} |-> ""]

\* options: UploadOptions = {}
OptionsOf(r) == IF "options" \in DOMAIN r THEN r.options ELSE EmptyObject

NotCalled == [status |-> "none", value |-> Nil, message |-> ""]

ValidFile(k) ==
    [originalname |-> "image" \o ToString(k) \o ".jpg", mimetype |-> "image/jpeg",
     size |-> 1024000 + k, buffer |-> "image"]

TestConfig ==
    [MAX_FILE_SIZE |-> 5242880,
     ALLOWED_MIME_TYPES |-> <<"image/jpeg", "image/png", "image/jpg", "image/webp">>]

SmallConfig == [MAX_FILE_SIZE |-> 1572864]

Configs == {EmptyObject, TestConfig, SmallConfig}

-----------------------------------------------------------------------------
(* Steps of the service                                                    *)

Quiescent(bs) == \A s \in SizeSet : bs[s].st \in {"idle", "done", "failed"}

\* the branches of a pipeline stopped once the pipeline has failed
ScheduledWhilePending(i) ==
    /\ pl[i].promise.status = "pending"
    /\ \/ Len(pl) <= MaxBatch
       \/ \A j \in 1..(i - 1) : Quiescent(br[j])

\* Batches longer than MaxBatch are explored with their pipelines completing
\* one after the other; shorter ones with every interleaving.
Scheduled(i) ==
    \/ Len(pl) <= MaxBatch
    \/ \A j \in 1..(i - 1) : Quiescent(br[j])

\* What the environment (sharp, the remote store) may answer.  sharp cannot
\* decode a corrupt buffer.  A single upload sees every kind of failure,
\* also of a transform of a sound buffer; in a batch that is interleaved
\* freely the transforms fail on the corrupt buffers and the remote store
\* fails at will; the long batches run without failures.
TransformOutcomes(file) ==
    IF file.buffer /= "image" THEN {"resize"}
    ELSE IF req.kind = "single" THEN {"ok", "resize", "metadata"}
    ELSE {"ok"}

UploadOutcomes ==
    IF req.kind = "single" THEN {"result", "error", "neither"}
    ELSE IF Len(pl) <= MaxBatch THEN {"result", "error"}
    ELSE {"result"}

TransformError(o) ==
    IF o = "resize" THEN "Input buffer contains unsupported image format"
    ELSE "Input buffer has corrupt header"

\* The arguments (error, result) the remote store hands to the callback of
\* upload_stream, by outcome.
CallbackArgs(cb, folder, filename) ==
    [error |-> IF cb \in {"error", "both"} THEN [message |-> "Network error"] ELSE Nil,
     result |-> IF cb \in {"result", "both"}
                THEN [secure_url |-> SecureUrl(folder, filename),
                      public_id |-> folder \o "/" \o filename]
                ELSE Nil]

\* the callback without its last branch: called with neither an error nor
\* a result it leaves the promise pending
UploadStreamCallbackNoElse(error, result) ==
    IF ~IsNil(error) THEN Rejected(error.message)
    ELSE IF ~IsNil(result) THEN Fulfilled(result)
    ELSE Pending

\* the callback resolving with whatever result it was given
UploadStreamCallbackUnchecked(error, result) ==
    IF ~IsNil(error) THEN Rejected(error.message)
    ELSE Fulfilled(result)

\* The callback uploadToCloudinary hands to upload_stream, as the state of
\* the promise uploadToCloudinary returns.
UploadStreamCallback(error, result) ==
    IF ~IsNil(error) THEN Rejected(error.message)
    ELSE IF ~IsNil(result) THEN Fulfilled(result)
    ELSE Rejected("Upload failed: No result returned from Cloudinary")

Install(sps) ==
    /\ pl' = [i \in 1..Len(sps) |->
                [promise |-> sps[i].promise, folder |-> sps[i].folder,
                 filenamePrefix |-> sps[i].filenamePrefix]]
    /\ br' = [i \in 1..Len(sps) |-> sps[i].branches]
    /\ integrity' = [i \in 1..Len(sps) |-> sps[i].integrity]

\* processAndUploadImage(file, options) called by the controller
ProcessAndUploadImage ==
    /\ req.kind = "single"
    /\ outcome.status = "none"
    /\ Install(<<StartPipeline(req.files[1], OptionsOf(req), config)>>)
    /\ outcome' = CallPromise(Pending, "single", pl')
    /\ UNCHANGED <<req, config, ret, order, clock, store, issued, del>>

\* processMultipleImages mapping the files to pipelines before it tests
\* their number
ProcessMultipleImagesGuardLast ==
    /\ req.kind = "batch"
    /\ outcome.status = "none"
    /\ IF "files" \notin DOMAIN req
       THEN /\ outcome' = Rejected(BatchGuard(req))
            /\ UNCHANGED <<pl, br, integrity>>
       ELSE /\ Install([i \in 1..Len(req.files) |->
                          StartPipeline(req.files[i], OptionsOf(req), config)])
            /\ outcome' = IF BatchGuard(req) /= "" THEN Rejected(BatchGuard(req))
                          ELSE CallPromise(Pending, "batch", pl')
    /\ UNCHANGED <<req, config, ret, order, clock, store, issued, del>>

\* processMultipleImages(files, options) called by the controller
ProcessMultipleImages ==
    /\ req.kind = "batch"
    /\ outcome.status = "none"
    /\ IF BatchGuard(req) /= ""
       THEN /\ outcome' = Rejected(BatchGuard(req))
            /\ UNCHANGED <<pl, br, integrity>>
       ELSE /\ Install([i \in 1..Len(req.files) |->
                          StartPipeline(req.files[i], OptionsOf(req), config)])
            /\ outcome' = CallPromise(Pending, "batch", pl')
    /\ UNCHANGED <<req, config, ret, order, clock, store, issued, del>>

\* The reactions that follow a step of a branch of pipeline i; reason is the
\* error the branch rejected with, if it did
Settle(i, reason) ==
    /\ pl' = [pl EXCEPT ![i].promise =
                PipelinePromise(@, br'[i], reason, req.files[i], OptionsOf(req), clock)]
    /\ order' = IF pl[i].promise.status = "pending"
                   /\ pl'[i].promise.status = "fulfilled"
                THEN Append(order, i) ELSE order
    /\ outcome' = CallPromise(outcome, req.kind, pl')

\* the object name built from the prefix and the timestamp only
FilenameNoSize(filenamePrefix, sizeName, now) ==
    filenamePrefix \o "_" \o ToString(now)

\* `${filenamePrefix}_${sizeName}_${Date.now()}`
Filename(filenamePrefix, sizeName, now) ==
    filenamePrefix \o "_" \o sizeName \o "_" \o ToString(now)

\* resizeAndUpload opening the upload stream before the metadata of the
\* produced buffer has been read back
TransformDoneUploadsEarly(i, s) ==
    /\ br[i][s].st = "transforming"
    /\ Scheduled(i)
    /\ \E o \in TransformOutcomes(req.files[i]), hasDimensions \in BOOLEAN :
       /\ LET processedImage == Resize(req.files[i].buffer, sizes[s])
             metadata == Metadata(processedImage, hasDimensions)
             filename == Filename(pl[i].filenamePrefix, s, clock)
         IN IF o = "ok"
            THEN /\ br' = [br EXCEPT ![i][s] =
                      [@ EXCEPT !.st = "uploading",
                                !.filename = filename,
                                !.width = Coalesce(metadata, "width", sizes[s].width),
                                !.height = Coalesce(metadata, "height", sizes[s].height),
                                !.uploads = @ + 1]]
                 /\ issued' = issued (+) SetToBag({[folder |-> pl[i].folder,
                                                    public_id |-> filename]})
            ELSE IF o = "metadata"
            THEN /\ br' = [br EXCEPT ![i][s] =
                      [@ EXCEPT !.st = "failed",
                                !.filename = filename,
                                !.uploads = @ + 1]]
                 /\ issued' = issued (+) SetToBag({[folder |-> pl[i].folder,
                                                    public_id |-> filename]})
            ELSE /\ br' = [br EXCEPT ![i][s].st = "failed"]
                 /\ issued' = issued
       /\ Settle(i, TransformError(o))
    /\ UNCHANGED <<req, config, ret, integrity, clock, store, del>>

\* resizeAndUpload from the end of the transform to the start of the upload:
\* toBuffer() and metadata() have settled, Date.now() is read and
\* uploadToCloudinary pipes the buffer into upload_stream.
TransformDone(i, s) ==
    /\ br[i][s].st = "transforming"
    /\ Scheduled(i)
    /\ \E o \in TransformOutcomes(req.files[i]), hasDimensions \in BOOLEAN :
       /\ LET processedImage == Resize(req.files[i].buffer, sizes[s])
             metadata == Metadata(processedImage, hasDimensions)
             filename == Filename(pl[i].filenamePrefix, s, clock)
         IN IF o = "ok"
            THEN /\ br' = [br EXCEPT ![i][s] =
                      [@ EXCEPT !.st = "uploading",
                                !.filename = filename,
                                !.width = Coalesce(metadata, "width", sizes[s].width),
                                !.height = Coalesce(metadata, "height", sizes[s].height),
                                !.uploads = @ + 1]]
                 /\ issued' = issued (+) SetToBag({[folder |-> pl[i].folder,
                                                    public_id |-> filename]})
            ELSE /\ br' = [br EXCEPT ![i][s].st = "failed"]
                 /\ issued' = issued
       /\ Settle(i, TransformError(o))
    /\ UNCHANGED <<req, config, ret, integrity, clock, store, del>>

\* resizeAndUpload destroying the objects of its pipeline when its upload
\* fails
UploadCallbackCleansUp(i, s) ==
    /\ br[i][s].st = "uploading"
    /\ Scheduled(i)
    /\ \E cb \in UploadOutcomes :
       LET args == CallbackArgs(cb, pl[i].folder, br[i][s].filename)
           uploadResult == UploadStreamCallback(args.error, args.result)
       IN /\ IF uploadResult.status = "fulfilled"
             THEN /\ br' = [br EXCEPT ![i][s] =
                         [@ EXCEPT !.st = "done",
                                   !.variant =
                                      [url |-> uploadResult.value.secure_url,
                                       width |-> br[i][s].width,
                                       height |-> br[i][s].height,
                                       format |-> "webp"]]]
                  /\ store' = store \cup {[folder |-> pl[i].folder,
                                           public_id |-> br[i][s].filename]}
             ELSE /\ br' = [br EXCEPT ![i][s].st =
                                 IF uploadResult.status = "rejected" THEN "failed"
                                 ELSE "hung"]
                  /\ store' = {e \in store :
                                 \A t \in SizeSet :
                                    e /= [folder |-> pl[i].folder,
                                          public_id |-> br[i][t].filename]}
          /\ Settle(i, uploadResult.message)
    /\ UNCHANGED <<req, config, ret, integrity, clock, issued, del>>

\* The callback of upload_stream and the rest of resizeAndUpload.  A
\* callback that settles the promise of uploadToCloudinary ends the branch;
\* were the promise left pending, the branch would hang in its await.
UploadCallback(i, s) ==
    /\ br[i][s].st = "uploading"
    /\ Scheduled(i)
    /\ \E cb \in UploadOutcomes :
       LET args == CallbackArgs(cb, pl[i].folder, br[i][s].filename)
           uploadResult == UploadStreamCallback(args.error, args.result)
       IN /\ IF uploadResult.status = "fulfilled"
             THEN br' = [br EXCEPT ![i][s] =
                      [@ EXCEPT !.st = "done",
                                !.variant =
                                   [url |-> uploadResult.value.secure_url,
                                    width |-> br[i][s].width,
                                    height |-> br[i][s].height,
                                    format |-> "webp"]]]
             ELSE br' = [br EXCEPT ![i][s].st =
                            IF uploadResult.status = "rejected" THEN "failed"
                            ELSE "hung"]
          /\ store' = IF IsNil(args.result) THEN store
                      ELSE store \cup {[folder |-> pl[i].folder,
                                         public_id |-> br[i][s].filename]}
          /\ Settle(i, uploadResult.message)
    /\ UNCHANGED <<req, config, ret, integrity, clock, issued, del>>

\* The detached sharp(file.buffer).metadata() of validateFile settles; its
\* catch handler throws into a promise that has no handler.
IntegritySettles(i) ==
    /\ integrity[i] = "pending"
    /\ integrity' = [integrity EXCEPT ![i] =
          IF req.files[i].buffer = "image" THEN "resolved" ELSE "unhandledRejection"]
    /\ UNCHANGED <<req, config, ret, pl, br, outcome, order, clock, store, issued, del>>

\* Date.now() advances while work is in flight
Tick ==
    /\ clock < MaxClock
    /\ \E i \in 1..Len(br) : ~Quiescent(br[i])
    /\ clock' = clock + 1
    /\ UNCHANGED <<req, config, ret, pl, br, integrity, outcome, order, store, issued, del>>

Fresh ==
    /\ ret = Nil
    /\ pl = <<>>
    /\ br = <<>>
    /\ integrity = <<>>
    /\ outcome = NotCalled
    /\ order = <<>>
    /\ clock = 0
    /\ store = {}
    /\ issued = EmptyBag
    /\ del = <<>>

-----------------------------------------------------------------------------
(* Single uploads                                                          *)

SingleFiles ==
    {Nil, ValidFile(1),
     [originalname |-> "max.png", mimetype |-> "image/png",
      size |-> DefaultMaxFileSize, buffer |-> "image"],
     [originalname |-> "big.jpg", mimetype |-> "image/jpeg",
      size |-> DefaultMaxFileSize + 1, buffer |-> "image"],
     [originalname |-> "doc.pdf", mimetype |-> "application/pdf",
      size |-> 2048, buffer |-> "image"],
     [originalname |-> "pic.webp", mimetype |-> "image/webp",
      size |-> 4096, buffer |-> "image"],
     [originalname |-> "broken.jpg", mimetype |-> "image/jpeg",
      size |-> 512, buffer |-> "corrupt"]}

SingleOptions ==
    {EmptyObject,
     [userId |-> "user123", category |-> "profile", description |-> "Test description"],
     [folder |-> "custom/path", userId |-> "user123"]}

SingleRequests ==
    {[kind |-> "single", files |-> <<f>>] : f \in SingleFiles}
    \cup {[kind |-> "single", files |-> <<f>>, options |-> o] :
            f \in SingleFiles, o \in SingleOptions}

Init ==
    /\ req \in SingleRequests
    /\ config \in {EmptyObject, TestConfig}
    /\ Fresh

Next ==
    \/ ProcessAndUploadImage
    \/ \E i \in 1..Len(br), s \in SizeSet : TransformDone(i, s)
    \/ \E i \in 1..Len(br), s \in SizeSet : UploadCallback(i, s)
    \/ \E i \in 1..Len(br) : IntegritySettles(i)
    \/ Tick

Spec == Init /\ [][Next]_vars

-----------------------------------------------------------------------------
(* Batch uploads                                                           *)

BigFile ==
    [originalname |-> "big.jpg", mimetype |-> "image/jpeg",
     size |-> DefaultMaxFileSize + 1, buffer |-> "image"]

PdfFile ==
    [originalname |-> "doc.pdf", mimetype |-> "application/pdf",
     size |-> 2048, buffer |-> "image"]

CorruptFile ==
    [originalname |-> "broken.jpg", mimetype |-> "image/jpeg",
     size |-> 512, buffer |-> "corrupt"]

BatchFilesAt(k) == {ValidFile(k), BigFile, PdfFile, CorruptFile}

ShortBatches ==
    UNION {{f \in [1..n -> UNION {BatchFilesAt(k) : k \in 1..n}] :
              \A k \in 1..n : f[k] \in BatchFilesAt(k)} : n \in 0..MaxBatch}

LongBatches == {[k \in 1..n |-> ValidFile(k)] : n \in {MaxFiles, MaxFiles + 1}}

BatchOptions == {[userId |-> "user123"]}

BatchRequests ==
    {[kind |-> "batch"], [kind |-> "batch", options |-> EmptyObject]}
    \cup {[kind |-> "batch", files |-> fs, options |-> o] :
            fs \in ShortBatches \cup LongBatches, o \in BatchOptions}

InitBatch ==
    /\ req \in BatchRequests
    /\ config = EmptyObject
    /\ Fresh

NextBatch ==
    \/ ProcessMultipleImages
    \/ \E i \in 1..Len(br), s \in SizeSet : TransformDone(i, s)
    \/ \E i \in 1..Len(br), s \in SizeSet : UploadCallback(i, s)

\* Batches while Date.now() stands still
SpecBatch == InitBatch /\ [][NextBatch]_vars

NextNames ==
    \/ NextBatch
    \/ Tick

InitNames ==
    /\ req \in {[kind |-> "batch", files |-> [k \in 1..n |-> ValidFile(k)], options |-> o] :
                  n \in 1..MaxBatch, o \in BatchOptions}
    /\ config = EmptyObject
    /\ Fresh

\* Batches of valid files while Date.now() advances
SpecNames == InitNames /\ [][NextNames]_vars

-----------------------------------------------------------------------------
(* Calls whose transforms and uploads all return                           *)

LiveRequests ==
    {[kind |-> "single", files |-> <<f>>] : f \in {ValidFile(1), PdfFile, CorruptFile}}
    \cup {[kind |-> "batch", files |-> fs, options |-> o] :
            fs \in {<<>>, <<ValidFile(1), ValidFile(2)>>, <<ValidFile(1), CorruptFile>>,
                    <<BigFile, ValidFile(2)>>},
            o \in BatchOptions}

InitLive ==
    /\ req \in LiveRequests
    /\ config = EmptyObject
    /\ Fresh

NextLive ==
    \/ ProcessAndUploadImage
    \/ ProcessMultipleImages
    \/ \E i \in 1..Len(br), s \in SizeSet : TransformDone(i, s)
    \/ \E i \in 1..Len(br), s \in SizeSet : UploadCallback(i, s)

\* sharp settles every transform it was given and the remote store calls
\* every upload stream back
EveryCallReturns ==
    \A i \in 1..2 : \A s \in SizeSet :
        /\ WF_vars(i <= Len(br) /\ TransformDone(i, s))
        /\ WF_vars(i <= Len(br) /\ UploadCallback(i, s))

SpecLive == InitLive /\ [][NextLive]_vars /\ EveryCallReturns

-----------------------------------------------------------------------------
(* The private helpers called directly, as the unit tests call them        *)

OptionValues(k) ==
    CASE k = "folder" -> {"", "custom/path"}
      [] k = "userId" -> {"", "user123", "image"}
      [] k = "category" -> {"", "profile"}
      [] k = "description" -> {"Test description"}

OptionKeys == {"folder", "userId", "category", "description"}

AllOptions ==
    UNION {{o \in [K -> UNION {OptionValues(k) : k \in OptionKeys}] :
              \A k \in K : o[k] \in OptionValues(k)} : K \in SUBSET OptionKeys}

DetermineFolder ==
    /\ ret' = [helper |-> "determineFolder", value |-> determineFolder(req.options)]
    /\ UNCHANGED <<req, config, pl, br, integrity, outcome, order, clock, store, issued, del>>

BuildFilenamePrefix ==
    /\ ret' = [helper |-> "buildFilenamePrefix",
               value |-> buildFilenamePrefix(req.options)]
    /\ UNCHANGED <<req, config, pl, br, integrity, outcome, order, clock, store, issued, del>>

ExtractMetadata ==
    /\ ret' = [helper |-> "extractMetadata", value |-> extractMetadata(req.options)]
    /\ UNCHANGED <<req, config, pl, br, integrity, outcome, order, clock, store, issued, del>>

InitNamer ==
    /\ req \in {[kind |-> "helper", options |-> o] : o \in AllOptions}
    /\ config = EmptyObject
    /\ Fresh

NextNamer ==
    \/ DetermineFolder
    \/ BuildFilenamePrefix
    \/ ExtractMetadata

SpecNamer == InitNamer /\ [][NextNamer]_vars

ValidateSizes ==
    {1024000, 1572864, 1572865, DefaultMaxFileSize - 1, DefaultMaxFileSize,
     DefaultMaxFileSize + 1, 2 * DefaultMaxFileSize}

ValidateMimeTypes ==
    {"image/jpeg", "image/png", "image/jpg", "image/webp", "application/pdf"}

ValidateFiles ==
    {Nil} \cup
    {[originalname |-> "test-image.jpg", mimetype |-> m, size |-> n, buffer |-> b] :
        m \in ValidateMimeTypes, n \in ValidateSizes, b \in {"image", "corrupt"}}

\* validateFile(file) called on its own
ValidateFile ==
    /\ IsNil(ret)
    /\ LET v == validateFile(req.files[1], config)
       IN /\ ret' = [helper |-> "validateFile", value |-> v]
          /\ integrity' = <<IF v.threw THEN "none" ELSE "pending">>
    /\ UNCHANGED <<req, config, pl, br, outcome, order, clock, store, issued, del>>

InitValidate ==
    /\ req \in {[kind |-> "helper", files |-> <<f>>] : f \in ValidateFiles}
    /\ config \in Configs
    /\ Fresh

NextValidate ==
    \/ ValidateFile
    \/ \E i \in 1..Len(integrity) : IntegritySettles(i)

SpecValidate == InitValidate /\ [][NextValidate]_vars

-----------------------------------------------------------------------------
(* Claims about the helpers                                                *)

\* an option that is present and not the empty string
Given(o, k) == k \in DOMAIN o /\ o[k] /= ""

CalledHelper(h) == ~IsNil(ret) /\ ret.helper = h

\* C8: determineFolder follows first-match-wins precedence for every
\* combination of options: a given folder is returned verbatim whatever
\* userId and category are; else userId and category both given yields
\* uploads/{category}/{userId}; else only userId yields
\* uploads/users/{userId}; else only category yields uploads/{category};
\* else "uploads".  (Given: present and not the empty string.)
ThmC8 ==
    CalledHelper("determineFolder") =>
        LET o == req.options
            f == Given(o, "folder")
            u == Given(o, "userId")
            c == Given(o, "category")
        IN /\ f => ret.value = o.folder
           /\ (~f /\ u /\ c) => ret.value = "uploads/" \o o.category \o "/" \o o.userId
           /\ (~f /\ u /\ ~c) => ret.value = "uploads/users/" \o o.userId
           /\ (~f /\ ~u /\ c) => ret.value = "uploads/" \o o.category
           /\ (~f /\ ~u /\ ~c) => ret.value = "uploads"

\* the explicit folder wins over a userId and a category that are both given
WitC8 ==
    /\ CalledHelper("determineFolder")
    /\ Given(req.options, "folder")
    /\ Given(req.options, "userId")
    /\ Given(req.options, "category")
    /\ ret.value = "custom/path"

\* C9: buildFilenamePrefix returns the given values of userId then category
\* joined by "_" (userId first), and the literal "image" when neither is
\* given, which is the only case in which it falls back to the literal; the
\* folder option never influences the prefix.
ThmC9 ==
    CalledHelper("buildFilenamePrefix") =>
        LET o == req.options
            u == Given(o, "userId")
            c == Given(o, "category")
            noFolder == [k \in DOMAIN o \ {"folder"} |-> o[k]]
        IN /\ (u /\ c) => ret.value = o.userId \o "_" \o o.category
           /\ (u /\ ~c) => ret.value = o.userId
           /\ (~u /\ c) => ret.value = o.category
           /\ (~u /\ ~c) => ret.value = "image"
           /\ ret.value = buildFilenamePrefix(noFolder)

\* both are given, next to a folder: userId comes first
WitC9 ==
    /\ CalledHelper("buildFilenamePrefix")
    /\ Given(req.options, "folder")
    /\ ret.value = "user123_profile"

\* the maximum in force: MAX_FILE_SIZE when configured, else 5,242,880
MaxInForce == IF "MAX_FILE_SIZE" \in DOMAIN config THEN config["MAX_FILE_SIZE"] ELSE 5242880

TooLargeMessages ==
    {"File too large. Maximum size is " \o ToString(n) \o "MB" : n \in 0..16}

IsTooLarge(v) == v.threw /\ v.message \in TooLargeMessages

\* C10: for a present file validateFile fails with TooLarge exactly when the
\* declared size is strictly greater than the maximum in force (default
\* 5,242,880): a size equal to the maximum is not rejected for its size, one
\* byte more is.
ThmC10 ==
    (CalledHelper("validateFile") /\ ~IsNil(req.files[1])) =>
        (IsTooLarge(ret.value) <=> req.files[1].size > MaxInForce)

\* a file of exactly the default maximum passes
WitC10 ==
    /\ CalledHelper("validateFile")
    /\ ~IsNil(req.files[1])
    /\ "MAX_FILE_SIZE" \notin DOMAIN config
    /\ req.files[1].size = 5242880
    /\ ~ret.value.threw

-----------------------------------------------------------------------------
(* Claims about processAndUploadImage                                      *)

VariantNames == {"thumbnail", "medium", "large"}

Called == outcome.status /= "none"

BranchesAll(i, st) == \A s \in SizeSet : br[i][s].st = st

IsVariant(v, w, h) ==
    /\ ~IsNil(v)
    /\ v.width = w
    /\ v.height = h
    /\ v.format = "webp"

\* C1: a file that passes validation and whose three transforms and uploads
\* all succeed gets a result, and every result has exactly the three
\* variants thumbnail, medium and large, of 150x150, 500x500 and 1200x1200,
\* each of format "webp".
ThmC1 ==
    (Called /\ req.kind = "single") =>
        /\ BranchesAll(1, "done") => outcome.status = "fulfilled"
        /\ outcome.status = "fulfilled" =>
             LET images == outcome.value.images
             IN /\ DOMAIN images = VariantNames
                /\ IsVariant(images["thumbnail"], 150, 150)
                /\ IsVariant(images["medium"], 500, 500)
                /\ IsVariant(images["large"], 1200, 1200)

\* a single upload has returned its result
WitC1 ==
    /\ req.kind = "single"
    /\ outcome.status = "fulfilled"
    /\ BranchesAll(1, "done")

\* C2: if any one of the three branches fails, in its transform or in its
\* upload, processAndUploadImage fails as a whole and returns no variant,
\* also when sibling branches have uploaded; it never returns a result with
\* fewer than three variants.
ThmC2 ==
    (Called /\ req.kind = "single") =>
        /\ (\E s \in SizeSet : br[1][s].st = "failed") =>
              (outcome.status = "rejected" /\ IsNil(outcome.value))
        /\ outcome.status = "fulfilled" =>
              \A n \in VariantNames :
                  /\ n \in DOMAIN outcome.value.images
                  /\ ~IsNil(outcome.value.images[n])

\* one branch has failed after a sibling has uploaded; the call has failed
WitC2 ==
    /\ req.kind = "single"
    /\ outcome.status = "rejected"
    /\ \E s, t \in SizeSet : br[1][s].st = "failed" /\ br[1][t].st = "done"

AllowedInForce == ConfigGet(config, "ALLOWED_MIME_TYPES", DefaultAllowedMimeTypes)

FailsValidation(f) ==
    \/ IsNil(f)
    \/ f.size > MaxInForce
    \/ ~Includes(AllowedInForce, f.mimetype)

\* C3: when the validation of a file fails (no file, a declared size above
\* the maximum, or a type that is not allowed) the call fails at once, and
\* no transform and no remote upload is ever started for that file.
ThmC3 ==
    (Called /\ req.kind = "single" /\ FailsValidation(req.files[1])) =>
        /\ outcome.status = "rejected"
        /\ \A s \in SizeSet :
              /\ br[1][s].st = "idle"
              /\ br[1][s].transforms = 0
              /\ br[1][s].uploads = 0
        /\ issued = EmptyBag
        /\ store = {}

\* a file above the maximum has been rejected
WitC3 ==
    /\ Called
    /\ req.kind = "single"
    /\ ~IsNil(req.files[1])
    /\ req.files[1].size > MaxInForce
    /\ outcome.status = "rejected"

-----------------------------------------------------------------------------
(* Claims about processMultipleImages                                      *)

NoList == "files" \notin DOMAIN req

\* C4: processMultipleImages fails with "No files uploaded" when given no
\* list or an empty one, with "Maximum 10 files allowed" when given more
\* than 10 files, and a batch of 1 to 10 valid files whose transforms and
\* uploads all succeed returns exactly one result per file.
ThmC4 ==
    (Called /\ req.kind = "batch") =>
        /\ (NoList \/ Len(req.files) = 0) => outcome = Rejected("No files uploaded")
        /\ (~NoList /\ Len(req.files) > 10) =>
              outcome = Rejected("Maximum 10 files allowed")
        /\ (~NoList /\ Len(req.files) \in 1..10) =>
              /\ Len(pl) = Len(req.files)
              /\ (\A i \in 1..Len(br) : BranchesAll(i, "done")) =>
                    outcome.status = "fulfilled"
              /\ outcome.status = "fulfilled" =>
                    Len(outcome.value) = Len(req.files)

\* a batch of exactly 10 files has returned 10 results
WitC4 ==
    /\ req.kind = "batch"
    /\ outcome.status = "fulfilled"
    /\ Len(req.files) = 10
    /\ Len(outcome.value) = 10

\* C5: in a successful batch result i describes file i (its original name,
\* mimetype and size), for every i and for every order in which the
\* pipelines and their branches complete.
ThmC5 ==
    (req.kind = "batch" /\ outcome.status = "fulfilled") =>
        \A i \in 1..Len(req.files) :
            outcome.value[i].original =
                [filename |-> req.files[i].originalname,
                 mimetype |-> req.files[i].mimetype,
                 size |-> req.files[i].size]

\* a batch has succeeded whose second pipeline finished before its first
WitC5 ==
    /\ req.kind = "batch"
    /\ outcome.status = "fulfilled"
    /\ Len(order) >= 2
    /\ order[1] = 2

\* C6: if the pipeline of any image of a batch fails, processMultipleImages
\* fails as a whole: it never returns a list with results for only some of
\* the files, nor a list with a failed entry.
ThmC6 ==
    (Called /\ req.kind = "batch") =>
        /\ (\E i \in 1..Len(pl) : pl[i].promise.status = "rejected") =>
              (outcome.status = "rejected" /\ IsNil(outcome.value))
        /\ outcome.status = "fulfilled" =>
              /\ Len(outcome.value) = Len(req.files)
              /\ \A i \in 1..Len(outcome.value) :
                    /\ ~IsNil(outcome.value[i])
                    /\ outcome.value[i].success

\* the batch has failed although one of its pipelines has succeeded
WitC6 ==
    /\ req.kind = "batch"
    /\ outcome.status = "rejected"
    /\ \E i, j \in 1..Len(pl) :
          /\ pl[i].promise.status = "rejected"
          /\ pl[j].promise.status = "fulfilled"

\* C7: object names {prefix}_{sizeName}_{Date.now()} are unique: no two
\* upload calls issued by the service use the same folder and object name.
CexC7 == \A e \in BagToSet(issued) : CopiesIn(e, issued) <= 1

-----------------------------------------------------------------------------
(* Claims about the type check and the integrity check of validateFile     *)

\* the default set of allowed types as documented (README, Configuration)
DocumentedMimeTypes == <<"image/jpeg", "image/png", "image/jpg", "image/webp">>

\* the allowed set in force when the default is the documented one
AllowedDocumented == ConfigGet(config, "ALLOWED_MIME_TYPES", DocumentedMimeTypes)

UnsupportedTypeMessages ==
    {"Invalid file type. Allowed types: " \o Join(a, ", ") :
        a \in {DefaultAllowedMimeTypes, DocumentedMimeTypes}}

IsUnsupportedType(v) == v.threw /\ v.message \in UnsupportedTypeMessages

\* C11: for a present file within the size limit validateFile fails with
\* UnsupportedType exactly when the declared type is not in the allowed set,
\* where the allowed set is ALLOWED_MIME_TYPES when configured and otherwise
\* {image/jpeg, image/png, image/jpg, image/webp}; so image/webp passes the
\* type check under the default configuration.
CexC11 ==
    (CalledHelper("validateFile") /\ ~IsNil(req.files[1])
        /\ req.files[1].size <= MaxInForce) =>
        (IsUnsupportedType(ret.value)
            <=> ~Includes(AllowedDocumented, req.files[1].mimetype))

\* the file passes the size check and the type check of validateFile
PassesSizeAndType(f) ==
    /\ ~IsNil(f)
    /\ f.size <= MaxInForce
    /\ Includes(AllowedInForce, f.mimetype)

\* C12: for a file that passes the size and type checks but whose image
\* metadata cannot be decoded, validation fails with 'Invalid image file':
\* the call is rejected with that message and no transform is ever started.
CexC12 ==
    (Called /\ req.kind = "single" /\ PassesSizeAndType(req.files[1])
        /\ req.files[1].buffer = "corrupt") =>
        /\ outcome = Rejected("Image processing failed: Invalid image file")
        /\ \A s \in SizeSet : br[1][s].st = "idle" /\ br[1][s].transforms = 0

-----------------------------------------------------------------------------
(* uploadToCloudinary called directly, as the unit tests call it           *)

CallbackOutcomes == {"result", "error", "neither", "both"}

\* the (folder, filename) pairs resizeAndUpload can pass, and the test's pair
UploadRequests ==
    {[kind |-> "helper", folder |-> determineFolder(o),
      filename |-> buildFilenamePrefix(o) \o "_" \o s \o "_" \o ToString(t)] :
        o \in AllOptions, s \in SizeSet, t \in 0..MaxClock}
    \cup {[kind |-> "helper", folder |-> "uploads/test",
            filename |-> "test_thumbnail_123"]}

\* uploadToCloudinary(buffer, filename, folder): the promise is created and
\* the buffer is piped into upload_stream
UploadToCloudinary ==
    /\ IsNil(ret)
    /\ ret' = [helper |-> "uploadToCloudinary", callback |-> Nil, value |-> Pending]
    /\ issued' = issued (+) SetToBag({[folder |-> req.folder,
                                       public_id |-> req.filename]})
    /\ UNCHANGED <<req, config, pl, br, integrity, outcome, order, clock, store, del>>

\* the remote store calls the callback (error, result) => ...
UploadStreamDone ==
    /\ CalledHelper("uploadToCloudinary")
    /\ ret.value.status = "pending"
    /\ \E cb \in CallbackOutcomes :
       LET args == CallbackArgs(cb, req.folder, req.filename)
       IN /\ ret' = [ret EXCEPT !.callback = args,
                                !.value = UploadStreamCallback(args.error, args.result)]
          /\ store' = IF IsNil(args.result) THEN store
                      ELSE store \cup {[folder |-> req.folder,
                                         public_id |-> req.filename]}
    /\ UNCHANGED <<req, config, pl, br, integrity, outcome, order, clock, issued, del>>

InitUpload ==
    /\ req \in UploadRequests
    /\ config = EmptyObject
    /\ Fresh

NextUpload ==
    \/ UploadToCloudinary
    \/ UploadStreamDone

SpecUpload == InitUpload /\ [][NextUpload]_vars

NoResultMessage == "Upload failed: No result returned from Cloudinary"

\* C13: uploadToCloudinary succeeds, with the result the remote store
\* reported, exactly when the callback reports no error and a result; it
\* fails with the reported error when the callback reports an error, and
\* with 'Upload failed: No result returned from Cloudinary' when the
\* callback reports neither an error nor a result.
ThmC13 ==
    (CalledHelper("uploadToCloudinary") /\ ret.value.status /= "pending") =>
        LET error == ret.callback.error
            result == ret.callback.result
        IN /\ ret.value.status = "fulfilled" <=> (IsNil(error) /\ ~IsNil(result))
           /\ ret.value.status = "fulfilled" => ret.value.value = result
           /\ ~IsNil(error) => ret.value = Rejected(error.message)
           /\ (IsNil(error) /\ IsNil(result)) => ret.value = Rejected(NoResultMessage)

\* the callback reported neither an error nor a result
WitC13 ==
    /\ CalledHelper("uploadToCloudinary")
    /\ ~IsNil(ret.callback)
    /\ IsNil(ret.callback.error)
    /\ IsNil(ret.callback.result)
    /\ ret.value = Rejected(NoResultMessage)

-----------------------------------------------------------------------------
(* deleteImage                                                             *)

MaxDeletes == 2     \* number of deleteImage calls

\* the catch block of deleteImage resolving with a failure object
DeleteCatchResolves(message) ==
    Fulfilled([success |-> FALSE, message |-> "Delete failed: " \o message])

\* The catch block of deleteImage: every error thrown inside the try, the
\* function's own exceptions included, is thrown again with a new message.
DeleteCatch(message) == Rejected("Delete failed: " \o message)

\* deleteImage up to its await: args holds publicId unless it is undefined
\* or null; destroys counts the calls of cloudinary.uploader.destroy.
deleteImageStart(args) ==
    IF ~Truthy(args, "publicId")
    THEN [args |-> args, destroys |-> 0, response |-> Nil,
          promise |-> DeleteCatch("Public ID is required")]
    ELSE [args |-> args, destroys |-> 1, response |-> Nil, promise |-> Pending]

\* deleteImage taking every answer of the remote store for a success
deleteImageResumeAnyResult(response) ==
    IF "error" \in DOMAIN response THEN DeleteCatch(response.error)
    ELSE Fulfilled([success |-> TRUE, message |-> "Image deleted successfully"])

\* deleteImage from the await on: response is what destroy settled with,
\* [result |-> ...] when it resolved and [error |-> message] when it threw.
deleteImageResume(response) ==
    IF "error" \in DOMAIN response THEN DeleteCatch(response.error)
    ELSE IF response.result = "ok"
    THEN Fulfilled([success |-> TRUE, message |-> "Image deleted successfully"])
    ELSE DeleteCatch("Failed to delete image")

\* the identifier under which the remote store keeps an uploaded object
PublicIdOf(e) == e.folder \o "/" \o e.public_id

Stored(objects, publicId) == \E e \in objects : PublicIdOf(e) = publicId

\* cloudinary.uploader.destroy(publicId) at the remote store: it removes the
\* object and answers 'ok', answers 'not found' when it holds no such
\* object, or the call fails in transport.
Destroy(objects, publicId, fault) ==
    IF fault THEN [response |-> [error |-> "Network error"], store |-> objects]
    ELSE IF Stored(objects, publicId)
    THEN [response |-> [result |-> "ok"],
          store |-> {e \in objects : PublicIdOf(e) /= publicId}]
    ELSE [response |-> [result |-> "not found"], store |-> objects]

\* The arguments of the calls.  For an upload made directly: the object of
\* the request, the identifier the tests use, the empty string, and null;
\* next to a pipeline: what the remote store holds, and the empty string.
DeleteArgs ==
    IF req.kind = "helper"
    THEN {EmptyObject, [publicId |-> ""],
          [publicId |-> req.folder \o "/" \o req.filename],
          [publicId |-> "uploads/test_image_123"]}
    ELSE {[publicId |-> ""]} \cup {[publicId |-> PublicIdOf(e)] : e \in store}

\* deleteImage(publicId) is called
DeleteImage ==
    /\ Len(del) < MaxDeletes
    /\ \E args \in DeleteArgs : del' = Append(del, deleteImageStart(args))
    /\ UNCHANGED <<req, config, ret, pl, br, integrity, outcome, order, clock, store,
                   issued>>

\* deleteImage calling destroy once more after a transport error
DestroySettlesRetries(k) ==
    /\ del[k].promise.status = "pending"
    /\ \E fault \in BOOLEAN :
       LET d == Destroy(store, del[k].args.publicId, fault)
       IN /\ del' = IF fault /\ del[k].destroys < 2
                    THEN [del EXCEPT ![k].destroys = @ + 1]
                    ELSE [del EXCEPT ![k].response = d.response,
                                     ![k].promise = deleteImageResume(d.response)]
          /\ store' = d.store
    /\ UNCHANGED <<req, config, ret, pl, br, integrity, outcome, order, clock, issued>>

\* the destroy call of the k-th deleteImage settles and deleteImage resumes
DestroySettles(k) ==
    /\ del[k].promise.status = "pending"
    /\ \E fault \in BOOLEAN :
       LET d == Destroy(store, del[k].args.publicId, fault)
       IN /\ del' = [del EXCEPT ![k].response = d.response,
                                ![k].promise = deleteImageResume(d.response)]
          /\ store' = d.store
    /\ UNCHANGED <<req, config, ret, pl, br, integrity, outcome, order, clock, issued>>

DeleteRequests ==
    {[kind |-> "helper", folder |-> determineFolder(o),
      filename |-> buildFilenamePrefix(o) \o "_" \o s \o "_0"] :
        o \in SingleOptions, s \in SizeSet}

InitDelete ==
    /\ req \in DeleteRequests
    /\ config = EmptyObject
    /\ Fresh

NextDelete ==
    \/ UploadToCloudinary
    \/ UploadStreamDone
    \/ DeleteImage
    \/ \E k \in 1..Len(del) : DestroySettles(k)

\* One object is uploaded and deleteImage is called up to MaxDeletes times
SpecDelete == InitDelete /\ [][NextDelete]_vars

InitRetry ==
    /\ req \in {[kind |-> "single", files |-> <<f>>, options |-> o] :
                  f \in {ValidFile(1), CorruptFile}, o \in BatchOptions}
    /\ config = EmptyObject
    /\ Fresh

NextRetry ==
    \/ ProcessAndUploadImage
    \/ \E i \in 1..Len(br), s \in SizeSet : TransformDone(i, s)
    \/ \E i \in 1..Len(br), s \in SizeSet : UploadCallback(i, s)
    \/ DeleteImage
    \/ \E k \in 1..Len(del) : DestroySettles(k)

\* One image is uploaded, with every failure, while deleteImage is called on
\* what the remote store holds
SpecRetry == InitRetry /\ [][NextRetry]_vars

-----------------------------------------------------------------------------
(* Claims about deleteImage                                                *)

DeleteSettled(k) == del[k].promise.status /= "pending"

DeleteSuccess == [success |-> TRUE, message |-> "Image deleted successfully"]

MissingIdMessage == "Delete failed: Public ID is required"

DeleteFailedMessage == "Delete failed: Failed to delete image"

\* C14: deleteImage returns {success: true} exactly when the publicId is
\* non-empty and the remote destroy reports the result 'ok'; it fails with
\* 'Public ID is required' for an empty or absent publicId (without calling
\* the remote store), with 'Failed to delete image' for any other remote
\* result, and with a message that includes the underlying one when the
\* remote call throws; each message follows the prefix 'Delete failed: '.
ThmC14 ==
    \A k \in 1..Len(del) :
        DeleteSettled(k) =>
            LET d == del[k]
                given == Given(d.args, "publicId")
                threw == "error" \in DOMAIN d.response
                ok == "result" \in DOMAIN d.response /\ d.response.result = "ok"
            IN /\ d.promise.status = "fulfilled" <=> (given /\ ok)
               /\ d.promise.status = "fulfilled" => d.promise.value = DeleteSuccess
               /\ ~given => (d.promise = Rejected(MissingIdMessage) /\ IsNil(d.response))
               /\ (given /\ ~threw /\ ~ok) => d.promise = Rejected(DeleteFailedMessage)
               /\ (given /\ threw) =>
                     d.promise = Rejected("Delete failed: " \o d.response.error)

\* a call has succeeded and another has failed in transport
WitC14 ==
    /\ \E k \in 1..Len(del) : del[k].promise = Fulfilled(DeleteSuccess)
    /\ \E k \in 1..Len(del) : del[k].promise = Rejected("Delete failed: Network error")

\* the k-th call of deleteImage settles in this step, its destroy answered
SettlesNow(k) ==
    /\ del[k].promise.status = "pending"
    /\ del'[k].promise.status /= "pending"

\* an earlier deleteImage of the same identifier has succeeded
DeletedBefore(k) ==
    \E j \in 1..Len(del) :
        /\ j /= k
        /\ del[j].args = del[k].args
        /\ del[j].promise.status = "fulfilled"

-----------------------------------------------------------------------------
(* Claims about the response, the batch and the remote store               *)

\* the folder of an upload by the precedence of C8
ResolvedFolder(o) ==
    IF Given(o, "folder") THEN o.folder
    ELSE IF Given(o, "userId") /\ Given(o, "category")
         THEN "uploads/" \o o.category \o "/" \o o.userId
    ELSE IF Given(o, "userId") THEN "uploads/users/" \o o.userId
    ELSE IF Given(o, "category") THEN "uploads/" \o o.category
    ELSE "uploads"

\* C16: in every successful result original.filename, original.mimetype and
\* original.size are the input file's original name, declared type and
\* declared size, and metadata carries userId, category and description
\* exactly as supplied in the options (absent when not supplied) together
\* with the resolved folder.
ThmC16 ==
    (req.kind = "single" /\ outcome.status = "fulfilled") =>
        LET file == req.files[1]
            options == OptionsOf(req)
            result == outcome.value
        IN /\ result.original.filename = file.originalname
           /\ result.original.mimetype = file.mimetype
           /\ result.original.size = file.size
           /\ \A k \in {"userId", "category", "description"} :
                 IF k \in DOMAIN options
                 THEN k \in DOMAIN result.metadata /\ result.metadata[k] = options[k]
                 ELSE k \notin DOMAIN result.metadata
           /\ "folder" \in DOMAIN result.metadata
           /\ result.metadata.folder = ResolvedFolder(options)

\* an upload with userId, category and description has succeeded
WitC16 ==
    /\ req.kind = "single"
    /\ outcome.status = "fulfilled"
    /\ "options" \in DOMAIN req
    /\ DOMAIN req.options = {"userId", "category", "description"}
    /\ outcome.value.metadata.description = "Test description"
    /\ outcome.value.metadata.folder = "uploads/profile/user123"
    /\ outcome.value.original.filename = req.files[1].originalname

InFlight(i) == ~Quiescent(br[i])

\* C17 as stated: once processMultipleImages has settled, with a result or
\* with a failure, every pipeline of the batch has settled and none has a
\* transform or an upload in flight.
CexC17 ==
    (req.kind = "batch" /\ outcome.status \in {"fulfilled", "rejected"}) =>
        \A i \in 1..Len(pl) :
            /\ pl[i].promise.status /= "pending"
            /\ ~InFlight(i)

\* C17, amended: processMultipleImages returns a result only after every
\* pipeline of the batch has completed, with nothing in flight; it returns
\* a failure as soon as the first pipeline fails, without waiting for the
\* other pipelines or for the remaining branches of the failed one.
ThmC17 ==
    (Called /\ req.kind = "batch") =>
        /\ outcome.status = "fulfilled" =>
              \A i \in 1..Len(pl) :
                  pl[i].promise.status = "fulfilled" /\ BranchesAll(i, "done")
        /\ (\E i \in 1..Len(pl) : pl[i].promise.status = "rejected") =>
              outcome.status = "rejected"
        /\ (outcome.status = "rejected" /\ BatchGuard(req) = "") =>
              \E i \in 1..Len(pl) : pl[i].promise.status = "rejected"

\* the batch has failed while another pipeline is still pending with work
\* in flight
WitC17 ==
    /\ req.kind = "batch"
    /\ outcome.status = "rejected"
    /\ \E i \in 1..Len(pl) : pl[i].promise.status = "pending" /\ InFlight(i)

\* the object a finished branch has written
ObjectOf(i, s) == [folder |-> pl[i].folder, public_id |-> br[i][s].filename]

\* C18: the objects uploaded by the branches of a call stay in the remote
\* store whatever becomes of the call: every branch that has uploaded has
\* its object in the store, also when its pipeline or the call has failed;
\* a failed call returns nothing but the failure, and the service issues no
\* delete.
ThmC18 ==
    Called =>
        /\ \A i \in 1..Len(br) : \A s \in SizeSet :
              br[i][s].st = "done" => ObjectOf(i, s) \in store
        /\ outcome.status = "rejected" => IsNil(outcome.value)
        /\ del = <<>>

\* orphans: the batch has failed, one pipeline failed after two of its
\* branches had uploaded, another pipeline has uploaded all three variants,
\* and all these objects are in the store
WitC18 ==
    /\ req.kind = "batch"
    /\ outcome.status = "rejected"
    /\ \E i, j \in 1..Len(pl) :
          /\ pl[i].promise.status = "rejected"
          /\ \E s, t \in SizeSet :
                /\ s /= t
                /\ br[i][s].st = "done" /\ ObjectOf(i, s) \in store
                /\ br[i][t].st = "done" /\ ObjectOf(i, t) \in store
          /\ pl[j].promise.status = "fulfilled"
          /\ \A s \in SizeSet : ObjectOf(j, s) \in store
    /\ \A i \in 1..Len(pl) : ~InFlight(i)

PipelineFailed(i) == pl[i].promise.status = "rejected"

\* C19: a failing branch does not cancel its siblings.  In a pipeline that
\* has failed, every branch still transforming can finish its transform and
\* start its upload (when sharp can decode the buffer), and every branch
\* still uploading can finish its upload, which writes a new object to the
\* remote store after the pipeline has failed.
ThmC19 ==
    (Called /\ req.kind = "single" /\ PipelineFailed(1)) =>
        \A s \in SizeSet :
            /\ (br[1][s].st = "transforming" /\ req.files[1].buffer = "image") =>
                  ENABLED (TransformDone(1, s) /\ br'[1][s].st = "uploading")
            /\ br[1][s].st = "uploading" =>
                  ENABLED (/\ UploadCallback(1, s)
                           /\ br'[1][s].st = "done"
                           /\ ObjectOf(1, s) \in store')

\* the pipeline has failed in one branch while a sibling, whose object is
\* not in the store yet, is still uploading and another is transforming
WitC19 ==
    /\ Called
    /\ req.kind = "single"
    /\ PipelineFailed(1)
    /\ \E r, s, t \in SizeSet :
          /\ br[1][r].st = "failed"
          /\ br[1][s].st = "uploading"
          /\ ObjectOf(1, s) \notin store
          /\ br[1][t].st = "transforming"

\* C20: no retry.  Every branch of a pipeline run has invoked its transform
\* at most once and the remote upload at most once (the uploads issued are
\* those the branches count), and every deleteImage has invoked the remote
\* destroy at most once, whatever has failed.
ThmC20 ==
    /\ \A i \in 1..Len(br) : \A s \in SizeSet :
          /\ br[i][s].transforms <= 1
          /\ br[i][s].uploads <= 1
          /\ br[i][s].st = "failed" => br[i][s].transforms = 1
    /\ Len(br) = 1 =>
          BagCardinality(issued) =
              br[1]["thumbnail"].uploads + br[1]["medium"].uploads
                  + br[1]["large"].uploads
    /\ \A k \in 1..Len(del) :
          /\ del[k].destroys <= 1
          /\ "error" \in DOMAIN del[k].response =>
                (del[k].destroys = 1 /\ del[k].promise.status = "rejected")

\* a transform has failed, an upload has failed and a destroy has failed,
\* each after its only attempt
WitC20 ==
    /\ Called
    /\ \E s, t \in SizeSet :
          /\ br[1][s].st = "failed" /\ br[1][s].transforms = 1 /\ br[1][s].uploads = 0
          /\ br[1][t].st = "failed" /\ br[1][t].uploads = 1
    /\ \E k \in 1..Len(del) :
          /\ del[k].promise = Rejected("Delete failed: Network error")
          /\ del[k].destroys = 1

-----------------------------------------------------------------------------
(* Claims about concurrency, lifecycle and naming                          *)

\* the upload streams of the call that have been opened and not called back
UploadsInFlight ==
    Cardinality({x \in (1..Len(br)) \X SizeSet : br[x[1]][x[2]].st = "uploading"})

\* C21: in every state of a processMultipleImages call the number of upload
\* streams in flight is at most 3 times the number of files of the batch,
\* and a call that starts pipelines has at most 10 files, hence at most 30
\* streams.
ThmC21 ==
    (Called /\ req.kind = "batch" /\ Len(pl) > 0) =>
        /\ Len(pl) = Len(req.files)
        /\ Len(pl) <= 10
        /\ UploadsInFlight <= 3 * Len(req.files)
        /\ UploadsInFlight <= 30

\* every branch of every image of a batch is uploading at the same time
WitC21 ==
    /\ Called
    /\ req.kind = "batch"
    /\ Len(pl) = MaxBatch
    /\ UploadsInFlight = 3 * Len(req.files)

\* in every state after the call: the branches were started together, and
\* every branch in flight can take its next step whatever its siblings do
FanOut ==
    (Called /\ req.kind = "single") =>
        /\ (\E s \in SizeSet : br[1][s].st /= "idle") =>
              \A t \in SizeSet : br[1][t].st /= "idle" /\ br[1][t].transforms = 1
        /\ \A s \in SizeSet :
              /\ br[1][s].st = "transforming" => ENABLED TransformDone(1, s)
              /\ br[1][s].st = "uploading" => ENABLED UploadCallback(1, s)

\* C22: after validation the three branches of a pipeline are started
\* before any of them completes, no branch waits for a sibling's transform
\* or upload, and no step changes the source buffer the branches share.
ThmC22 == []FanOut /\ [][req'.files = req.files]_vars

\* the three branches are in flight at once, the last one already
\* uploading while the first is still transforming
WitC22 ==
    /\ Called
    /\ req.kind = "single"
    /\ br[1]["thumbnail"].st = "transforming"
    /\ br[1]["medium"].st = "transforming"
    /\ br[1]["large"].st = "uploading"

\* a pipeline is Completed only with its three uploads done, and then the
\* result is there; a failed pipeline has no result
CompletedOnlyWhenAllDone ==
    (Called /\ req.kind = "single") =>
        /\ pl[1].promise.status = "fulfilled" =>
              /\ BranchesAll(1, "done")
              /\ ~IsNil(pl[1].promise.value)
              /\ outcome = pl[1].promise
        /\ pl[1].promise.status = "rejected" =>
              /\ IsNil(pl[1].promise.value)
              /\ outcome = pl[1].promise

\* a pipeline that has settled stays as it is
SettledIsTerminal ==
    (Len(pl) = 1 /\ pl[1].promise.status /= "pending") =>
        /\ pl'[1].promise = pl[1].promise
        /\ outcome' = outcome

\* C23: a pipeline reaches Completed, and its result is built, only when
\* all three branches have uploaded; Completed and Failed are terminal:
\* later completions of the branches of a failed pipeline never turn it
\* into Completed nor produce a result.
ThmC23 == []CompletedOnlyWhenAllDone /\ [][SettledIsTerminal]_vars

\* a failed pipeline, without result, two of whose branches have uploaded
WitC23 ==
    /\ Called
    /\ req.kind = "single"
    /\ pl[1].promise.status = "rejected"
    /\ IsNil(outcome.value)
    /\ \E r, s, t \in SizeSet :
          /\ r /= s
          /\ br[1][r].st = "done"
          /\ br[1][s].st = "done"
          /\ br[1][t].st = "failed"

\* C24: within one pipeline run the object names passed to the remote
\* upload are pairwise distinct, also when the branches read the same
\* millisecond from Date.now(): no two branches have the same name and no
\* (folder, name) pair is issued twice.
ThmC24 ==
    (Called /\ req.kind = "single") =>
        /\ \A s, t \in SizeSet :
              (s /= t /\ br[1][s].uploads = 1 /\ br[1][t].uploads = 1) =>
                  br[1][s].filename /= br[1][t].filename
        /\ \A e \in BagToSet(issued) : CopiesIn(e, issued) = 1

\* the three uploads of a run were named in the same millisecond
WitC24 ==
    /\ Called
    /\ req.kind = "single"
    /\ clock = 0
    /\ \A s \in SizeSet : br[1][s].uploads = 1
    /\ BagCardinality(issued) = 3
    /\ OptionsOf(req) = EmptyObject
    /\ br[1]["thumbnail"].filename = "image_thumbnail_0"
    /\ br[1]["large"].filename = "image_large_0"

\* the uploads the branches count are those issued, and a branch that is
\* still transforming has issued none
UploadsCounted ==
    (Called /\ req.kind = "single") =>
        /\ BagCardinality(issued) =
              br[1]["thumbnail"].uploads + br[1]["medium"].uploads
                  + br[1]["large"].uploads
        /\ \A s \in SizeSet :
              /\ br[1][s].st \in {"idle", "transforming"} => br[1][s].uploads = 0
              /\ br[1][s].uploads = 1 =>
                    (br[1][s].transforms = 1 /\ br[1][s].filename /= "")

\* a branch issues its upload in the step that ends its transform with
\* success, and in no other; a step that ends the transform with a failure
\* issues nothing
UploadFollowsTransform ==
    Len(br) = 1 =>
        \A s \in SizeSet :
            /\ br'[1][s].uploads /= br[1][s].uploads =>
                  /\ br[1][s].st = "transforming"
                  /\ br'[1][s].st = "uploading"
                  /\ br'[1][s].width = sizes[s].width
                  /\ br'[1][s].height = sizes[s].height
            /\ (br[1][s].st = "transforming" /\ br'[1][s].st = "failed") =>
                  /\ br'[1][s].uploads = 0
                  /\ issued' = issued

\* C25: within each branch the remote upload starts only after the
\* branch's transform and the read-back of the metadata of the produced
\* buffer have succeeded; a branch whose transform fails never issues an
\* upload.
ThmC25 == []UploadsCounted /\ [][UploadFollowsTransform]_vars

\* one branch has failed in its transform and issued nothing, while a
\* sibling has finished its transform and issued its upload
WitC25 ==
    /\ Called
    /\ req.kind = "single"
    /\ \E s, t \in SizeSet :
          /\ br[1][s].st = "failed" /\ br[1][s].uploads = 0
          /\ br[1][t].st = "uploading" /\ br[1][t].uploads = 1
    /\ BagCardinality(issued) = 1

\* the filename prefix of an upload by the rule of C9
ResolvedPrefix(o) ==
    IF Given(o, "userId") /\ Given(o, "category") THEN o.userId \o "_" \o o.category
    ELSE IF Given(o, "userId") THEN o.userId
    ELSE IF Given(o, "category") THEN o.category
    ELSE "image"

\* the object names a run can give to its uploads
NamesOfRun(o) ==
    {ResolvedPrefix(o) \o "_" \o s \o "_" \o ToString(t) :
        s \in SizeSet, t \in 0..MaxClock}

\* C26: in every pipeline run all upload calls use the same folder, the one
\* resolved from the options, and the same filename prefix, and the
\* metadata.folder of the result is the folder the uploads were sent to.
ThmC26 ==
    (Called /\ req.kind = "single") =>
        /\ \A e \in BagToSet(issued) :
              /\ e.folder = ResolvedFolder(OptionsOf(req))
              /\ e.public_id \in NamesOfRun(OptionsOf(req))
        /\ \A e, f \in BagToSet(issued) : e.folder = f.folder
        /\ outcome.status = "fulfilled" =>
              /\ \A e \in BagToSet(issued) : outcome.value.metadata.folder = e.folder
              /\ \A e \in store : outcome.value.metadata.folder = e.folder
              /\ \A n \in VariantNames :
                    outcome.value.images[n].url =
                        SecureUrl(outcome.value.metadata.folder, br[1][n].filename)

\* an upload into a custom folder has succeeded
WitC26 ==
    /\ Called
    /\ req.kind = "single"
    /\ outcome.status = "fulfilled"
    /\ outcome.value.metadata.folder = "custom/path"
    /\ BagCardinality(issued) = 3
    /\ \A e \in store : e.folder = "custom/path"
    /\ Cardinality(store) = 3

Settled == outcome.status \in {"fulfilled", "rejected"}

\* C27 as stated: when every transform and every upload returns, every call
\* eventually settles; and a call settles only when every upload stream it
\* has opened has called back.
CexC27 == (Called ~> Settled) /\ [](Settled => UploadsInFlight = 0)

\* the call settles in a step of one of its branches and in no other; it
\* has a result only when no upload is outstanding, and it has settled with
\* an upload outstanding only by the failure of a pipeline
NoTimeout ==
    (Called /\ Settled /\ UploadsInFlight > 0) =>
        /\ outcome.status = "rejected"
        /\ \E i \in 1..Len(pl) : pl[i].promise.status = "rejected"

SettlesByBranch ==
    (outcome.status = "pending" /\ outcome' /= outcome) => br' /= br

\* C27, amended: when every transform and every upload returns, every call
\* eventually settles; the service has no timeout: a call with an upload
\* that has not called back has no result, and it settles only by a step of
\* one of its branches, so with an upload that never calls back it never
\* completes and settles only if another branch or pipeline fails.
ThmC27 == (Called ~> Settled) /\ []NoTimeout /\ [][SettlesByBranch]_vars

\* a batch has failed while upload streams of the call are still open
WitC27 ==
    /\ Called
    /\ req.kind = "batch"
    /\ outcome.status = "rejected"
    /\ UploadsInFlight > 0
    /\ \E i \in 1..Len(pl) : pl[i].promise.status = "pending"

\* the batch has no file or more than 10
WrongSize == NoList \/ Len(req.files) = 0 \/ Len(req.files) > 10

\* C28: a batch rejected for its size (zero files, or more than 10) starts
\* no pipeline: no file is validated, transformed or uploaded, and the
\* remote store is left unchanged.
ThmC28 ==
    (Called /\ req.kind = "batch" /\ WrongSize) =>
        /\ outcome.status = "rejected"
        /\ pl = <<>>
        /\ br = <<>>
        /\ integrity = <<>>
        /\ issued = EmptyBag
        /\ store = {}

\* a batch of 11 files has been rejected
WitC28 ==
    /\ req.kind = "batch"
    /\ ~NoList
    /\ Len(req.files) = 11
    /\ outcome = Rejected("Maximum 10 files allowed")
    /\ pl = <<>>

-----------------------------------------------------------------------------
(* Claims about the order of the checks and about empty options            *)

\* C29: validateFile applies its checks in the order missing file, size,
\* type and reports the first that fails: a missing file fails with 'No
\* file uploaded', a file above the maximum fails with TooLarge whatever
\* its type, and UnsupportedType is reported only for a file within the
\* maximum.
ThmC29 ==
    CalledHelper("validateFile") =>
        LET file == req.files[1]
            v == ret.value
        IN /\ IsNil(file) => (v.threw /\ v.message = "No file uploaded")
           /\ (~IsNil(file) /\ file.size > MaxInForce) =>
                 (IsTooLarge(v) /\ ~IsUnsupportedType(v))
           /\ (~IsNil(file) /\ file.size <= MaxInForce
                 /\ ~Includes(AllowedInForce, file.mimetype)) => IsUnsupportedType(v)
           /\ IsUnsupportedType(v) => file.size <= MaxInForce

\* a file that is both too large and of a type that is not allowed has
\* failed with TooLarge
WitC29 ==
    /\ CalledHelper("validateFile")
    /\ ~IsNil(req.files[1])
    /\ req.files[1].size > MaxInForce
    /\ req.files[1].mimetype = "application/pdf"
    /\ IsTooLarge(ret.value)

\* the options without those whose value is the empty string
WithoutEmpty(o) == [k \in {j \in DOMAIN o : o[j] /= ""} |-> o[k]]

\* folder and prefix read off the options that are present
FolderOfPresent(o) ==
    IF "folder" \in DOMAIN o THEN o.folder
    ELSE IF "userId" \in DOMAIN o /\ "category" \in DOMAIN o
         THEN "uploads/" \o o.category \o "/" \o o.userId
    ELSE IF "userId" \in DOMAIN o THEN "uploads/users/" \o o.userId
    ELSE IF "category" \in DOMAIN o THEN "uploads/" \o o.category
    ELSE "uploads"

PrefixOfPresent(o) ==
    IF "userId" \in DOMAIN o /\ "category" \in DOMAIN o
    THEN o.userId \o "_" \o o.category
    ELSE IF "userId" \in DOMAIN o THEN o.userId
    ELSE IF "category" \in DOMAIN o THEN o.category
    ELSE "image"

\* C30: determineFolder and buildFilenamePrefix treat an option whose value
\* is the empty string exactly like an absent option: their result is the
\* one for the options with the empty ones left out; folder '' with a
\* userId gives uploads/users/{userId}, not '', and userId '' with a
\* category gives folder uploads/{category} and prefix {category}.
ThmC30 ==
    /\ CalledHelper("determineFolder") =>
          /\ ret.value = FolderOfPresent(WithoutEmpty(req.options))
          /\ ret.value /= ""
    /\ CalledHelper("buildFilenamePrefix") =>
          /\ ret.value = PrefixOfPresent(WithoutEmpty(req.options))
          /\ ret.value /= ""

\* folder '' with userId 'user123' has resolved to uploads/users/user123
WitC30 ==
    /\ CalledHelper("determineFolder")
    /\ "folder" \in DOMAIN req.options
    /\ req.options.folder = ""
    /\ Given(req.options, "userId")
    /\ "category" \notin DOMAIN req.options
    /\ ret.value = "uploads/users/user123"

====
